---- MODULE Spec2Model ----
(***************************************************************************)
(* Model of the keycap widget of src/src/components/KeycapModel.tsx: the   *)
(* press/release state machine of KeycapModel (handleClick, the two timers *)
(* it schedules, the per-frame pose update of useFrame), the click sound   *)
(* (audio load, synthesized fallback, stop/play), the click counter of     *)
(* Scene, and the finish/material configuration.                           *)
(*                                                                         *)
(* Numbers.  Pose, shadow and material values are JavaScript doubles; they *)
(* are modelled in fixed point, one unit = 0.001, and every product is     *)
(* rounded to the nearest unit, as a double operation rounds to the        *)
(* nearest representable value.  Time is counted in units of 10 ms.        *)
(*                                                                         *)
(* Events.  The host is single threaded: a click, a frame tick, a timer    *)
(* callback and a load callback each run to completion, and a state update *)
(* requested with setIsPressed / setClickCount is committed before the     *)
(* next event is delivered.  Each event is therefore one atomic action.    *)
(***************************************************************************)
EXTENDS Integers, Sequences, FiniteSets, TLC

----------------------------------------------------------------------------
(* Bounds of the model (not program constants).                            *)

\* clicks accepted in one run
MaxClicks == 2
\* handleClick calls counted per press (the counter saturates here)
MaxCalls == 3
\* frame ticks counted per press (the counter saturates here)
MaxPressedTicks == 10
\* texture loads in flight at one time
MaxLoads == 3
\* Math.random() is drawn from {0/RandomSteps, ..., (RandomSteps-1)/RandomSteps}
RandomSteps == 3

----------------------------------------------------------------------------
(* Program constants, in model units.                                      *)

\* setTimeout(..., 10): sound delay, in units of 10 ms
SoundDelay == 1
\* setTimeout(..., 200): press duration, in units of 10 ms
ReleaseDelay == 20

\* pressed branch of useFrame (unit 0.001)
PressScaleStep == 40
ScaleFloor == 650
PressPosStep == 20
PosFloor == 0 - 150
PressRotStep == 5
RotCeiling == 30

\* idle branch of useFrame: targets (unit 0.001) and speeds (percent)
targetZ == 0
targetRotX == 0
targetScaleZ == 1000
positionSpeed == 12
rotationSpeed == 15
scaleSpeed == 10

\* shadow plane: pressed values, rest values (unit 0.001), ease rate (percent)
ShadowPressedScale == 900
ShadowPressedZ == 0 - 30
ShadowPressedOpacity == 600
ShadowRestScale == 1000
ShadowRestZ == 0
ShadowRestOpacity == 400
ShadowSpeed == 10

\* audio volumes, in tenths
DefaultVolume == 10
AssetVolume == 7
FallbackVolume == 3

----------------------------------------------------------------------------
(* Arithmetic helpers.                                                     *)

Max(a, b) == IF a >= b THEN a ELSE b
Min(a, b) == IF a <= b THEN a ELSE b
Abs(a) == IF a >= 0 THEN a ELSE 0 - a

\* n / d rounded to the nearest integer (d > 0), halves upward
RoundDiv(n, d) == (2 * n + d) \div (2 * d)

\* value += (target - value) * speed, speed given in percent
Ease(value, target, speed) == value + RoundDiv((target - value) * speed, 100)

----------------------------------------------------------------------------
VARIABLES
    isPressed,      \* useState(false) of KeycapModel
    clickCount,     \* useState(0) of Scene
    pose,           \* group.current: [scaleZ, posZ, rotX]
    shadow,         \* shadowRef.current: [scaleX, scaleY, posZ, opacity]
    timers,         \* outstanding setTimeout callbacks, in creation order
    audio,          \* sound.current: [buffer, bufferLength, volume, isPlaying, source]
    loadState,      \* audioLoader.load: "pending" | "loaded" | "failed"
    presses,        \* history: number of Idle->Pressed transitions
    elapsed,        \* history: time since the last accepted handleClick
    burst,          \* history of the last accepted handleClick: calls made since,
                    \* callbacks and release timers they caused, and whether it
                    \* stopped a playing sound whose playback has not started yet
    pressedTicks,   \* history: consecutive frame ticks taken while pressed
    fallback,       \* createFallbackSound's loop: [pc, sampleRate, length, i, env, prevEnv, sample]
    textureType,    \* the textureType prop of KeycapModel
    loads,          \* textureLoader.load calls in flight: the finish each closure captured
    materials,      \* materials of the model: name -> appearance
    applied,        \* history: the finish of the load callback that ran last, or "none"
    latestLoad      \* history: what became of the load the latest effect run started

pressVars == <<isPressed, clickCount, pose, shadow, timers, audio, loadState,
               presses, elapsed, burst, pressedTicks>>

materialVars == <<textureType, loads, materials, applied, latestLoad>>

vars == <<pressVars, fallback, materialVars>>

----------------------------------------------------------------------------
(* The audio object (three.js Audio) as handleClick and the loader use it. *)

\* listener.context.sampleRate: the rates an AudioContext commonly runs at
SampleRates == {8000, 11025, 44100, 48000}

\* audioContext.createBuffer(1, sampleRate * 0.1, sampleRate): the length is
\* converted to an unsigned integer, which drops the fraction
FallbackLength(sampleRate) == sampleRate \div 10

NewAudio ==
    [buffer |-> "null", volume |-> DefaultVolume,
     isPlaying |-> FALSE, source |-> "none"]

\* sound.current.stop()
stop(a) == [a EXCEPT !.isPlaying = FALSE, !.source = "none"]

\* sound.current.play(): starts a new source on the current buffer, from its
\* beginning; does nothing when the audio is already playing
play(a) ==
    IF a.isPlaying THEN a
    ELSE [a EXCEPT !.isPlaying = TRUE, !.source = a.buffer]

----------------------------------------------------------------------------
(* Timers: setTimeout callbacks.  A timer fires when its remaining time is *)
(* 0; time does not advance past a due timer, and of two due timers the    *)
(* one created first fires first.                                          *)

Timer(kind, delay, press) == [kind |-> kind, rem |-> delay, press |-> press]

NumTimers(ts, kind) == Cardinality({i \in 1..Len(ts) : ts[i].kind = kind})

DueIndices(ts) == {i \in 1..Len(ts) : ts[i].rem = 0}

FirstDue(ts) == CHOOSE i \in DueIndices(ts) : \A j \in DueIndices(ts) : i <= j

Remove(ts, i) == SubSeq(ts, 1, i - 1) \o SubSeq(ts, i + 1, Len(ts))

----------------------------------------------------------------------------
PressInit ==
    /\ isPressed = FALSE
    /\ clickCount = 0
    /\ pose = [scaleZ |-> targetScaleZ, posZ |-> 0, rotX |-> 0]
    /\ shadow = [scaleX |-> 1000, scaleY |-> 1000, posZ |-> 0,
                 opacity |-> ShadowRestOpacity]
    /\ timers = <<>>
    /\ audio = NewAudio
    /\ loadState = "pending"
    /\ presses = 0
    /\ elapsed = 0
    /\ burst = [calls |-> 0, callbacks |-> 0, releases |-> 0, stopped |-> FALSE]
    /\ pressedTicks = 0

----------------------------------------------------------------------------
\* faulty variant: the counter is bumped twice
handleKeycapClick_Twice == clickCount' = clickCount + 2

(* Scene.handleKeycapClick: setClickCount(prev => prev + 1)                *)
handleKeycapClick == clickCount' = clickCount + 1

\* history of one handleClick call, computed from what the call did
handleClickHistory ==
    LET started == ~isPressed /\ isPressed'
        cb == clickCount' - clickCount
        rel == NumTimers(timers', "release") - NumTimers(timers, "release")
    IN  /\ presses' = IF started THEN presses + 1 ELSE presses
        /\ elapsed' = IF started THEN 0 ELSE elapsed
        /\ pressedTicks' = IF started THEN 0 ELSE pressedTicks
        /\ burst' = IF started
                       THEN [calls |-> 1, callbacks |-> cb, releases |-> rel,
                             stopped |-> audio.isPlaying /\ ~audio'.isPlaying]
                       ELSE [calls |-> Min(burst.calls + 1, MaxCalls),
                             callbacks |-> burst.callbacks + cb,
                             releases |-> burst.releases + rel,
                             stopped |-> burst.stopped]

\* faulty variant: the guard is missing
clickIgnored_Never == FALSE

\* faulty variant: the guard holds only until the sound has been started
clickIgnored_UntilSound == isPressed /\ NumTimers(timers, "sound") > 0

\* faulty variant: the guard gives way while the sound is playing
clickIgnored_Silent == isPressed /\ ~audio.isPlaying

\* if (isPressed) return;
clickIgnored == isPressed

\* faulty variant: a playing instance is not stopped
stopIfPlaying_Never(a) == a

\* if (sound.current.isPlaying) sound.current.stop();
stopIfPlaying(a) == IF a.isPlaying THEN stop(a) ELSE a

\* setTimeout(() => sound.current.play(), 10)
soundTimer == Timer("sound", SoundDelay, presses + 1)

\* faulty variant: the release is scheduled with the sound's delay
releaseTimer_Short == Timer("release", SoundDelay, presses + 1)

\* setTimeout(() => setIsPressed(false), 200)
releaseTimer == Timer("release", ReleaseDelay, presses + 1)

\* faulty variant: a playing instance is stopped before the guard is tested
handleClick_StopFirst ==
    /\ audio' = stopIfPlaying(audio)
    /\ IF clickIgnored
         THEN UNCHANGED <<isPressed, clickCount, timers>>
         ELSE /\ isPressed' = TRUE
              /\ handleKeycapClick
              /\ timers' = timers \o <<soundTimer>> \o <<releaseTimer>>
    /\ handleClickHistory
    /\ UNCHANGED <<pose, shadow, loadState, fallback, materialVars>>

\* handleClick, lines 136-159 (sound.current is set once the component is
\* mounted, so the sound branch is always taken)
handleClick ==
    /\ IF clickIgnored
         THEN UNCHANGED <<isPressed, clickCount, audio, timers>>
         ELSE /\ isPressed' = TRUE
              /\ handleKeycapClick
              /\ audio' = stopIfPlaying(audio)
              /\ timers' = timers \o <<soundTimer>> \o <<releaseTimer>>
    /\ handleClickHistory
    /\ UNCHANGED <<pose, shadow, loadState, fallback, materialVars>>

\* a click on a keycap mesh: e.stopPropagation(); handleClick()
ClickMesh ==
    /\ clickCount < MaxClicks
    /\ handleClick

\* a click on the shadow plane, which has no handler of its own and bubbles
\* to the group's onClick={handleClick}
ClickGroup ==
    /\ clickCount < MaxClicks
    /\ handleClick

----------------------------------------------------------------------------
(* useFrame, lines 162-217: one frame tick.                                *)

\* faulty variant: the steps are taken without the clamps
pressedPose_NoClamp(p) ==
    [scaleZ |-> p.scaleZ - PressScaleStep,
     posZ   |-> p.posZ - PressPosStep,
     rotX   |-> p.rotX + PressRotStep]

\* faulty variant: the scale step is 0.03 and the tilt step 0.004
pressedPose_Slow(p) ==
    [scaleZ |-> Max(p.scaleZ - 30, ScaleFloor),
     posZ   |-> Max(p.posZ - PressPosStep, PosFloor),
     rotX   |-> Min(p.rotX + 4, RotCeiling)]

\* faulty variant: the clamps are 0.6, -0.2 and 0.035
pressedPose_DeepClamps(p) ==
    [scaleZ |-> Max(p.scaleZ - PressScaleStep, 600),
     posZ   |-> Max(p.posZ - PressPosStep, 0 - 200),
     rotX   |-> Min(p.rotX + PressRotStep, 35)]

\* pressed branch: fixed steps with hard clamps
pressedPose(p) ==
    [scaleZ |-> Max(p.scaleZ - PressScaleStep, ScaleFloor),
     posZ   |-> Max(p.posZ - PressPosStep, PosFloor),
     rotX   |-> Min(p.rotX + PressRotStep, RotCeiling)]

\* faulty variant: the shadow is eased toward its pressed values
pressedShadow_Eased(sh) ==
    [scaleX  |-> Ease(sh.scaleX, ShadowPressedScale, ShadowSpeed),
     scaleY  |-> Ease(sh.scaleY, ShadowPressedScale, ShadowSpeed),
     posZ    |-> Ease(sh.posZ, ShadowPressedZ, ShadowSpeed),
     opacity |-> Ease(sh.opacity, ShadowPressedOpacity, ShadowSpeed)]

\* pressed branch, shadow: snapped
pressedShadow(sh) ==
    [scaleX |-> ShadowPressedScale, scaleY |-> ShadowPressedScale,
     posZ |-> ShadowPressedZ, opacity |-> ShadowPressedOpacity]

\* faulty variant: the speeds are factors above 1 (1.2, 1.5, 1.0 + 0.1)
idlePose_Overshoot(p) ==
    [scaleZ |-> Ease(p.scaleZ, targetScaleZ, 100 + scaleSpeed),
     posZ   |-> Ease(p.posZ, targetZ, 10 * positionSpeed),
     rotX   |-> Ease(p.rotX, targetRotX, 10 * rotationSpeed)]

\* idle branch: ease toward the rest pose
idlePose(p) ==
    [scaleZ |-> Ease(p.scaleZ, targetScaleZ, scaleSpeed),
     posZ   |-> Ease(p.posZ, targetZ, positionSpeed),
     rotX   |-> Ease(p.rotX, targetRotX, rotationSpeed)]

\* idle branch, shadow: ease toward rest
idleShadow(sh) ==
    [scaleX  |-> Ease(sh.scaleX, ShadowRestScale, ShadowSpeed),
     scaleY  |-> Ease(sh.scaleY, ShadowRestScale, ShadowSpeed),
     posZ    |-> Ease(sh.posZ, ShadowRestZ, ShadowSpeed),
     opacity |-> Ease(sh.opacity, ShadowRestOpacity, ShadowSpeed)]

Tick ==
    /\ pose' = IF isPressed THEN pressedPose(pose) ELSE idlePose(pose)
    /\ shadow' = IF isPressed THEN pressedShadow(shadow) ELSE idleShadow(shadow)
    /\ pressedTicks' = IF isPressed THEN Min(pressedTicks + 1, MaxPressedTicks) ELSE 0
    /\ UNCHANGED <<isPressed, clickCount, timers, audio, loadState,
                   presses, elapsed, burst,
                   fallback, materialVars>>

----------------------------------------------------------------------------
(* Timer callbacks and the passing of time.                                *)

\* () => { if (sound.current) sound.current.play(); }
SoundTimerFires ==
    /\ DueIndices(timers) # {}
    /\ timers[FirstDue(timers)].kind = "sound"
    /\ audio' = play(audio)
    /\ timers' = Remove(timers, FirstDue(timers))
    /\ burst' = [burst EXCEPT !.stopped = FALSE]
    /\ UNCHANGED <<isPressed, clickCount, pose, shadow, loadState,
                   presses, elapsed, pressedTicks,
                   fallback, materialVars>>

\* faulty variant: the callback leaves the press on
ReleaseTimerFires_Stuck ==
    /\ DueIndices(timers) # {}
    /\ timers[FirstDue(timers)].kind = "release"
    /\ timers' = Remove(timers, FirstDue(timers))
    /\ UNCHANGED <<isPressed, clickCount, pose, shadow, audio, loadState,
                   presses, elapsed, burst, pressedTicks,
                   fallback, materialVars>>

\* () => setIsPressed(false)
ReleaseTimerFires ==
    /\ DueIndices(timers) # {}
    /\ timers[FirstDue(timers)].kind = "release"
    /\ isPressed' = FALSE
    /\ timers' = Remove(timers, FirstDue(timers))
    /\ UNCHANGED <<clickCount, pose, shadow, audio, loadState,
                   presses, elapsed, burst, pressedTicks,
                   fallback, materialVars>>

\* the earliest deadline among the outstanding timers
MinRem(ts) == CHOOSE r \in {ts[i].rem : i \in 1..Len(ts)} :
                  \A i \in 1..Len(ts) : r <= ts[i].rem

\* time passes until the next timer is due: only while a timer is
\* outstanding and none is due yet
Advance ==
    /\ timers # <<>>
    /\ DueIndices(timers) = {}
    /\ timers' = [i \in 1..Len(timers) |->
                     [timers[i] EXCEPT !.rem = @ - MinRem(timers)]]
    /\ elapsed' = Min(elapsed + MinRem(timers), ReleaseDelay)
    /\ UNCHANGED <<isPressed, clickCount, pose, shadow, audio, loadState,
                   presses, burst, pressedTicks,
                   fallback, materialVars>>

----------------------------------------------------------------------------
(* The audio load of the setup effect, lines 54-113, and the end of a      *)
(* playback (the source's onended).                                        *)

\* onLoad: audio.setBuffer(buffer); audio.setVolume(0.7)
AudioLoaded ==
    /\ loadState = "pending"
    /\ loadState' = "loaded"
    /\ audio' = [audio EXCEPT !.buffer = "asset", !.volume = AssetVolume]
    /\ UNCHANGED <<isPressed, clickCount, pose, shadow, timers,
                   presses, elapsed, burst, pressedTicks,
                   fallback, materialVars>>

\* faulty variant: the volume is set, the synthesized buffer is not
createFallbackSound_NoBuffer(a) == [a EXCEPT !.volume = FallbackVolume]

\* createFallbackSound(audio, listener), lines 82-105, as one step: the
\* synthesized buffer and the reduced volume (the loop that fills the buffer
\* is FallbackStep below)
createFallbackSound(a) ==
    [a EXCEPT !.buffer = "fallback", !.volume = FallbackVolume]

\* onError: createFallbackSound(audio, listener)
AudioLoadError ==
    /\ loadState = "pending"
    /\ loadState' = "failed"
    /\ audio' = createFallbackSound(audio)
    /\ UNCHANGED <<isPressed, clickCount, pose, shadow, timers,
                   presses, elapsed, burst, pressedTicks,
                   fallback, materialVars>>

\* the playing source reaches the end of its buffer
SoundEnded ==
    /\ audio.isPlaying
    /\ audio' = [audio EXCEPT !.isPlaying = FALSE, !.source = "none"]
    /\ UNCHANGED <<isPressed, clickCount, pose, shadow, timers, loadState,
                   presses, elapsed, burst, pressedTicks,
                   fallback, materialVars>>

----------------------------------------------------------------------------
(* createFallbackSound, lines 82-105, one loop iteration per step.         *)
(* A sample is Math.random() * envelope; the envelope of sample i is kept  *)
(* in units of 0.5 / buffer.length, the sample in units of                 *)
(* 0.5 / (buffer.length * RandomSteps).                                    *)

\* the factor that multiplies Math.random() for sample i, lines 94-100:
\* 0.5 while i < buffer.length * 0.1, then 0.5 * (1 - i / buffer.length)
envelope(i, length) == IF 10 * i < length THEN length ELSE length - i

FallbackIdle ==
    [pc |-> "idle", sampleRate |-> 0, length |-> 0, i |-> 0,
     env |-> 0, prevEnv |-> 0, sample |-> 0]

\* the onError callback has been entered: buffer created, loop about to run
FallbackInit ==
    \E sampleRate \in SampleRates :
        fallback = [pc |-> "loop", sampleRate |-> sampleRate,
                    length |-> FallbackLength(sampleRate), i |-> 0,
                    env |-> 0, prevEnv |-> 0, sample |-> 0]

\* for (let i = 0; i < buffer.length; i++) channelData[i] = ...
FallbackStep ==
    /\ fallback.pc = "loop"
    /\ fallback.i < fallback.length
    /\ \E r \in 0..(RandomSteps - 1) :
          fallback' = [fallback EXCEPT
                          !.prevEnv = fallback.env,
                          !.env = envelope(fallback.i, fallback.length),
                          !.sample = r * envelope(fallback.i, fallback.length),
                          !.i = @ + 1]
    /\ UNCHANGED <<pressVars, materialVars>>

\* audio.setBuffer(buffer); audio.setVolume(0.3)
FallbackFinish ==
    /\ fallback.pc = "loop"
    /\ fallback.i >= fallback.length
    /\ fallback' = [fallback EXCEPT !.pc = "done"]
    /\ audio' = createFallbackSound(audio)
    /\ loadState' = "failed"
    /\ UNCHANGED <<isPressed, clickCount, pose, shadow, timers,
                   presses, elapsed, burst, pressedTicks, materialVars>>

----------------------------------------------------------------------------
(* Materials, lines 220-297.  Roughness, metalness and bump scale are in   *)
(* units of 0.001.                                                         *)

Finishes == {"matte", "glossy", "carbon"}

\* the switch on textureType, lines 229-254
roughness(t) == CASE t = "glossy" -> 100 [] t = "carbon" -> 400 [] OTHER -> 800
metalness(t) == CASE t = "glossy" -> 500 [] t = "carbon" -> 300 [] OTHER -> 100
bumpScale(t) == CASE t = "glossy" -> 1 [] t = "carbon" -> 8 [] OTHER -> 2

\* bumpMap.repeat.set(6, 6) for carbon, (3, 3) otherwise, lines 263-267
repeat(t) == IF t = "carbon" THEN 6 ELSE 3

\* material.bumpMap = null
NoBumpMap == [url |-> "null", repeat |-> 0]

\* the loaded bump texture of a finish, with its tiling
bumpMap(t) == [url |-> t, repeat |-> repeat(t)]

\* material names of the loaded model, as character sequences
MaterialNames ==
    { <<"B", "o", "d", "y">>,
      <<"K", "e", "y", "C", "a", "p">>,
      <<"L", "e", "t", "t", "e", "r">>,
      <<"T", "E", "X", "T">>,
      <<"b", "a", "s", "e">> }

\* key.toLowerCase(), on the characters the names use
LowerChar(c) ==
    CASE c = "B" -> "b" [] c = "C" -> "c" [] c = "E" -> "e" [] c = "K" -> "k"
      [] c = "L" -> "l" [] c = "T" -> "t" [] c = "X" -> "x" [] OTHER -> c

toLowerCase(key) == [n \in 1..Len(key) |-> LowerChar(key[n])]

\* key.includes(sub)
includes(key, sub) ==
    \E n \in 0..(Len(key) - Len(sub)) :
        \A m \in 1..Len(sub) : key[n + m] = sub[m]

\* lines 273-276
isLetterMaterial(key) ==
    \/ includes(toLowerCase(key), <<"l", "e", "t", "t", "e", "r">>)
    \/ includes(toLowerCase(key), <<"t", "e", "x", "t">>)
    \/ includes(toLowerCase(key), <<"c">>)

\* faulty variant: the letter keeps whatever bump map it had and takes the body colour
letterMaterial_Body(m) ==
    [m EXCEPT !.color = "0a0a0a", !.roughness = 100, !.metalness = 200]

\* lines 279-285: the letter
letterMaterial(m) ==
    [m EXCEPT !.color = "ffffff", !.roughness = 100, !.metalness = 200,
              !.bumpMap = NoBumpMap]

\* lines 287-292: the keycap body, with the finish t the closure captured
bodyMaterial(m, t) ==
    [m EXCEPT !.color = "0a0a0a", !.roughness = roughness(t),
              !.metalness = metalness(t), !.bumpMap = bumpMap(t),
              !.bumpScale = bumpScale(t)]

\* the materials as the model file delivers them
ModelMaterial ==
    [color |-> "model", roughness |-> 1000, metalness |-> 1000,
     bumpMap |-> NoBumpMap, bumpScale |-> 1000]

\* the component is mounted with the default finish and its load is in flight
MaterialInit ==
    /\ textureType = "carbon"
    /\ loads = <<"carbon">>
    /\ materials = [key \in MaterialNames |-> ModelMaterial]
    /\ applied = "none"
    /\ latestLoad = "loading"

\* the textureType prop changes: the effect runs again and starts a load;
\* a load already in flight is not cancelled
SetTextureType(t) ==
    /\ t # textureType
    /\ Len(loads) < MaxLoads
    /\ textureType' = t
    /\ loads' = Append(loads, t)
    /\ latestLoad' = "loading"
    /\ UNCHANGED <<materials, applied, pressVars, fallback>>

\* the n-th load in flight is the one the latest effect run started: loads
\* are kept in the order they were started
isLatestLoad(n) == latestLoad = "loading" /\ n = Len(loads)

\* the load callback of the n-th load in flight, lines 257-296
TextureLoaded(n) ==
    /\ n \in 1..Len(loads)
    /\ materials' = [key \in MaterialNames |->
                        IF isLetterMaterial(key)
                          THEN letterMaterial(materials[key])
                          ELSE bodyMaterial(materials[key], loads[n])]
    /\ applied' = loads[n]
    /\ latestLoad' = IF isLatestLoad(n) THEN "loaded" ELSE latestLoad
    /\ loads' = Remove(loads, n)
    /\ UNCHANGED <<textureType, pressVars, fallback>>

\* the n-th load in flight fails: textureLoader.load is given no onError
TextureFailed(n) ==
    /\ n \in 1..Len(loads)
    /\ latestLoad' = IF isLatestLoad(n) THEN "failed" ELSE latestLoad
    /\ loads' = Remove(loads, n)
    /\ UNCHANGED <<textureType, materials, applied, pressVars, fallback>>

----------------------------------------------------------------------------
Init ==
    /\ PressInit
    /\ fallback = FallbackIdle
    /\ MaterialInit

Next ==
    \/ ClickMesh
    \/ ClickGroup
    \/ Tick
    \/ SoundTimerFires
    \/ ReleaseTimerFires
    \/ Advance
    \/ AudioLoaded
    \/ AudioLoadError
    \/ SoundEnded

Spec == Init /\ [][Next]_vars

\* the host's clock runs and a callback given to setTimeout is run once its
\* delay has passed: time does not stop and due timers fire
FairSpec ==
    /\ Spec
    /\ WF_vars(Advance)
    /\ WF_vars(SoundTimerFires)
    /\ WF_vars(ReleaseTimerFires)

\* createFallbackSound on its own, from the entry of the onError callback
InitFallback ==
    /\ PressInit
    /\ FallbackInit
    /\ MaterialInit

NextFallback ==
    \/ FallbackStep
    \/ FallbackFinish

SpecFallback == InitFallback /\ [][NextFallback]_vars

\* the material configuration on its own
NextMaterial ==
    \/ \E t \in Finishes : SetTextureType(t)
    \/ \E n \in 1..MaxLoads : TextureLoaded(n)
    \/ \E n \in 1..MaxLoads : TextureFailed(n)

SpecMaterial == Init /\ [][NextMaterial]_vars

----------------------------------------------------------------------------
(* Properties.                                                             *)

\* a handleClick call, from either click handler
HandleClickCall == ClickMesh \/ ClickGroup

\* a handleClick call that is not ignored: made while Idle
AcceptedClick == HandleClickCall /\ ~isPressed

C4_PressedTickBounds ==
    [][(Tick /\ isPressed) =>
          /\ pose'.scaleZ <= pose.scaleZ
          /\ pose'.scaleZ >= 650
          /\ pose'.posZ >= 0 - 150
          /\ pose'.rotX <= 30]_vars

\* C4 witness: a second press interrupted the spring-back (scale.z is off
\* the steps 1, 0.96, 0.92, ... taken from rest) and has been ticked
C4_Witness ==
    /\ isPressed /\ presses = 2 /\ pressedTicks >= 2
    /\ pose.scaleZ > 650 /\ (1000 - pose.scaleZ) % 40 # 0

\* no crossing: x2 is on the side of the target where x was
SameSide(x, x2, target) ==
    /\ (x <= target => x2 <= target)
    /\ (x >= target => x2 >= target)

\* x2 is strictly nearer to the target than x, on the same side
StrictlyNearer(x, x2, target) ==
    /\ Abs(target - x2) < Abs(target - x)
    /\ SameSide(x, x2, target)

\* x2 is no farther from the target than x, on the same side; strictly
\* nearer when the eased step (distance * speed / 100) is more than half a
\* unit of the representation; unchanged when x is at the target
NearerWhenRepresentable(x, x2, target, speed) ==
    /\ Abs(target - x2) <= Abs(target - x)
    /\ SameSide(x, x2, target)
    /\ (2 * Abs(target - x) * speed > 100 => Abs(target - x2) < Abs(target - x))
    /\ (x = target => x2 = target)

\* C5 as stated: on every frame tick taken while Idle, position.z,
\* rotation.x and scale.z each strictly decrease their distance to their
\* target (0, 0, 1) and do not cross it.
C5_Original ==
    [][(Tick /\ ~isPressed) =>
          /\ StrictlyNearer(pose.posZ, pose'.posZ, 0)
          /\ StrictlyNearer(pose.rotX, pose'.rotX, 0)
          /\ StrictlyNearer(pose.scaleZ, pose'.scaleZ, 1000)]_vars

\* C5 amended: on every frame tick taken while Idle, each eased quantity
\* stays on its side of the target and does not increase its distance to
\* it; the distance strictly decreases whenever the eased step is more
\* than half a unit of the representation, and a quantity at its target
\* stays there.
C5_IdleEasing ==
    [][(Tick /\ ~isPressed) =>
          /\ NearerWhenRepresentable(pose.posZ, pose'.posZ, 0, 12)
          /\ NearerWhenRepresentable(pose.rotX, pose'.rotX, 0, 15)
          /\ NearerWhenRepresentable(pose.scaleZ, pose'.scaleZ, 1000, 10)]_vars

\* C5 witness: an idle tick has eased a pressed pose part of the way back
\* (the shadow's opacity is between its pressed and its rest value)
C5_Witness ==
    /\ ~isPressed /\ pressedTicks = 0
    /\ shadow.opacity > 400 /\ shadow.opacity < 600
    /\ pose.scaleZ > 650 /\ pose.scaleZ < 1000
    /\ pose.posZ < 0 /\ pose.rotX > 0

SoundPending == NumTimers(timers, "sound") > 0

\* C7 as stated: every handleClick call leaves no instance playing and
\* schedules the playback, which starts 10 ms (1 unit) later.
C7_Original ==
    [][HandleClickCall =>
          /\ ~audio'.isPlaying
          /\ NumTimers(timers', "sound") = NumTimers(timers, "sound") + 1]_vars

\* C7 amended: every accepted handleClick call (one made while Idle) stops
\* a playing instance and schedules one playback 10 ms ahead; nothing is
\* playing while that playback is outstanding, so that when its timer
\* fires, 10 ms after the call, playback starts on a fresh source; an
\* ignored call stops nothing and schedules nothing.
C7_StopThenPlay ==
    /\ [](SoundPending => ~audio.isPlaying)
    /\ [][AcceptedClick =>
            /\ ~audio'.isPlaying
            /\ NumTimers(timers', "sound") = 1
            /\ timers'[Len(timers') - 1] =
                   [kind |-> "sound", rem |-> 1, press |-> presses']]_vars
    /\ [][SoundTimerFires =>
            /\ elapsed = 1
            /\ ~audio.isPlaying
            /\ audio'.isPlaying
            /\ audio'.source = audio.buffer]_vars
    /\ [][(HandleClickCall /\ isPressed) =>
            (audio' = audio /\ timers' = timers)]_vars

\* C7 witness: the second press stopped the sound of the first while it was
\* still playing, and its own playback is due, 10 ms later
C7_Witness ==
    /\ isPressed /\ presses = 2 /\ burst.stopped
    /\ ~audio.isPlaying /\ SoundPending /\ elapsed = 1

\* C8 as stated: the fallback buffer holds sampleRate * 0.1 samples (about
\* 100 ms), and the amplitude envelope of its samples is strictly
\* increasing over the first 10% of them and decreasing over the rest.
\* Checked on each pair of samples the loop has just written: samples
\* fallback.i - 2 and fallback.i - 1, with envelopes prevEnv and env.
C8_FallbackEnvelope ==
    /\ 10 * fallback.length <= fallback.sampleRate
    /\ 10 * (fallback.length + 1) > fallback.sampleRate
    /\ (fallback.i >= 2 /\ 10 * (fallback.i - 1) < fallback.length) =>
           fallback.prevEnv < fallback.env
    /\ (fallback.i >= 2 /\ 10 * (fallback.i - 1) >= fallback.length) =>
           fallback.env <= fallback.prevEnv

\* C9 as stated: whenever the 10 ms sound timer of an accepted handleClick
\* fires, playback starts on a non-empty buffer: the loaded asset at volume
\* 0.7 or the synthesized fallback at volume 0.3.
C9_Original ==
    [][SoundTimerFires =>
          /\ audio'.isPlaying
          /\ \/ (audio'.source = "asset" /\ audio'.volume = 7)
             \/ (audio'.source = "fallback" /\ audio'.volume = 3)]_vars

\* C9 amended: every accepted handleClick schedules its playback 10 ms
\* ahead, and whenever that timer fires after the audio load has settled,
\* playback starts on a non-empty buffer: the loaded asset at volume 0.7
\* when the load succeeded, the synthesized fallback at volume 0.3 when it
\* failed.  (A timer that fires while the load is pending starts a source
\* with no buffer.)
C9_SoundAfterLoadSettled ==
    /\ [][AcceptedClick => NumTimers(timers', "sound") = 1]_vars
    /\ [][(SoundTimerFires /\ loadState # "pending") =>
            /\ ~audio.isPlaying
            /\ audio'.isPlaying
            /\ \/ /\ loadState = "loaded"
                  /\ audio'.source = "asset"
                  /\ audio'.volume = 7
               \/ /\ loadState = "failed"
                  /\ audio'.source = "fallback"
                  /\ audio'.volume = 3]_vars

\* C9 witness: the load failed and the synthesized fallback is playing
C9_Witness ==
    /\ loadState = "failed" /\ presses >= 1
    /\ audio.isPlaying /\ audio.source = "fallback" /\ audio.volume = 3

\* the (roughness, metalness, bump-intensity, tiling) tuple of a finish
FinishTuple(t) == <<roughness(t), metalness(t), bumpScale(t), repeat(t)>>

\* the same tuple, read off a material
MaterialTuple(m) ==
    <<m.roughness, m.metalness, m.bumpScale, m.bumpMap.repeat>>

\* C10: the three finishes have pairwise distinct tuples, the ones the
\* source gives; once a texture load callback has run, every letter
\* surface is white with roughness 0.1, metalness 0.2 and no bump map,
\* whichever finish the callback applied, and every other surface carries
\* the tuple of that finish.
C10_FinishesAndLetters ==
    /\ FinishTuple("matte") = <<800, 100, 2, 3>>
    /\ FinishTuple("glossy") = <<100, 500, 1, 3>>
    /\ FinishTuple("carbon") = <<400, 300, 8, 6>>
    /\ \A t, u \in Finishes : t # u => FinishTuple(t) # FinishTuple(u)
    /\ applied # "none" =>
          \A key \in MaterialNames :
              IF isLetterMaterial(key)
                THEN /\ materials[key].color = "ffffff"
                     /\ materials[key].roughness = 100
                     /\ materials[key].metalness = 200
                     /\ materials[key].bumpMap = NoBumpMap
                ELSE MaterialTuple(materials[key]) = FinishTuple(applied)

\* C10 witness: a finish other than the default has been applied; the
\* surfaces named KeyCap, Letter and TEXT are letters, Body and base are not
C10_Witness ==
    /\ applied = "glossy"
    /\ materials[<<"K", "e", "y", "C", "a", "p">>].color = "ffffff"
    /\ materials[<<"T", "E", "X", "T">>].color = "ffffff"
    /\ materials[<<"L", "e", "t", "t", "e", "r">>].color = "ffffff"
    /\ materials[<<"B", "o", "d", "y">>].roughness = 100
    /\ materials[<<"b", "a", "s", "e">>].bumpMap.repeat = 3

\* the look the letter branch gives a surface, lines 279-285
IsLetterLook(m) ==
    /\ m.color = "ffffff"
    /\ m.roughness = 100
    /\ m.metalness = 200
    /\ m.bumpMap = NoBumpMap

\* the untextured look of finish t: its base colour, roughness and
\* metalness, and no bump map
IsUntexturedFinish(m, t) ==
    /\ m.color = "0a0a0a"
    /\ m.roughness = roughness(t)
    /\ m.metalness = metalness(t)
    /\ m.bumpMap = NoBumpMap

\* C11: when the load of the bump texture of the selected finish has
\* failed and no other load is in flight, every surface that is not a
\* letter has the base colour, roughness and metalness of the selected
\* finish and no bump map, and every letter surface has the white look.
C11_FailedLoadDegrades ==
    (latestLoad = "failed" /\ loads = <<>>) =>
        \A key \in MaterialNames :
            IF isLetterMaterial(key)
              THEN IsLetterLook(materials[key])
              ELSE IsUntexturedFinish(materials[key], textureType)

\* C12: once no texture load is in flight and the load of the selected
\* finish has completed, every surface that is not a letter carries the
\* tuple of the selected finish, and every letter surface has the white
\* look, in whatever order the loads completed.
C12_LastSelectedFinishWins ==
    (latestLoad = "loaded" /\ loads = <<>>) =>
        \A key \in MaterialNames :
            IF isLetterMaterial(key)
              THEN IsLetterLook(materials[key])
              ELSE MaterialTuple(materials[key]) = FinishTuple(textureType)

C14_PressIsReleased ==
    /\ isPressed ~> ~isPressed
    /\ [][(isPressed /\ isPressed') =>
             NumTimers(timers', "release") = 1]_vars

\* C14 witness: a press during which two more handleClick calls and a
\* frame tick at full depth were made has been released
C14_Witness ==
    /\ ~isPressed /\ presses = 1 /\ burst.calls = 3
    /\ timers = <<>> /\ pose.scaleZ = ScaleFloor

\* C15: after 9 or more consecutive frame ticks taken while Pressed
\* scale.z is 0.65, after 8 or more position.z is -0.15, and after 6 or
\* more rotation.x is 0.03, whatever the pose the press started from; a
\* further tick taken while Pressed leaves the three values as they are.
C15_ClampsReachedInBoundedTicks ==
    /\ [](pressedTicks >= 9 => pose.scaleZ = 650)
    /\ [](pressedTicks >= 8 => pose.posZ = 0 - 150)
    /\ [](pressedTicks >= 6 => pose.rotX = 30)
    /\ [][(Tick /\ isPressed /\ pressedTicks >= 9) => pose' = pose]_vars

\* C15 witness: a tenth consecutive tick was taken while Pressed, with
\* all three values at their clamps
C15_Witness ==
    /\ isPressed /\ pressedTicks = 10
    /\ pose = [scaleZ |-> 650, posZ |-> 0 - 150, rotX |-> 30]

\* x2 is x moved by 10% of its remaining distance to the target, to the
\* nearest unit of the representation
TenthOfRemaining(x, x2, target) == Abs(10 * (x2 - x) - (target - x)) <= 5

\* C16: a frame tick taken while Pressed leaves the shadow at scale
\* (0.9, 0.9), z offset -0.03 and opacity 0.6, whatever it was before; a
\* frame tick taken while Idle moves shadow scale, z offset and opacity by
\* 10% of their remaining distance toward 1, 0 and 0.4; and in every state
\* shadow scale is within [0.9, 1], z offset within [-0.03, 0] and opacity
\* within [0.4, 0.6].
C16_ShadowFollowsPressState ==
    /\ [][(Tick /\ isPressed) =>
             shadow' = [scaleX |-> 900, scaleY |-> 900,
                        posZ |-> 0 - 30, opacity |-> 600]]_vars
    /\ [][(Tick /\ ~isPressed) =>
             /\ TenthOfRemaining(shadow.scaleX, shadow'.scaleX, 1000)
             /\ TenthOfRemaining(shadow.scaleY, shadow'.scaleY, 1000)
             /\ TenthOfRemaining(shadow.posZ, shadow'.posZ, 0)
             /\ TenthOfRemaining(shadow.opacity, shadow'.opacity, 400)]_vars
    /\ [](/\ shadow.scaleX >= 900 /\ shadow.scaleX <= 1000
          /\ shadow.scaleY >= 900 /\ shadow.scaleY <= 1000
          /\ shadow.posZ >= 0 - 30 /\ shadow.posZ <= 0
          /\ shadow.opacity >= 400 /\ shadow.opacity <= 600)

\* C16 witness: one idle tick after a pressed tick, the shadow has moved
\* a tenth of the way back from its pressed values
C16_Witness ==
    /\ ~isPressed /\ presses >= 1
    /\ shadow = [scaleX |-> 910, scaleY |-> 910,
                 posZ |-> 0 - 27, opacity |-> 580]

\* C17: in every reachable state scale.z is within [0.65, 1], position.z
\* within [-0.15, 0] and rotation.x within [0, 0.03], whatever the
\* interleaving of handleClick calls, frame ticks and timer firings.
C17_PoseWithinRange ==
    /\ pose.scaleZ >= 650 /\ pose.scaleZ <= 1000
    /\ pose.posZ >= 0 - 150 /\ pose.posZ <= 0
    /\ pose.rotX >= 0 /\ pose.rotX <= 30

\* C17 witness: the second press interrupted a spring-back (scale.z is off
\* the steps taken from rest) and was released before reaching its clamps
C17_Witness ==
    /\ ~isPressed /\ presses = 2
    /\ pressedTicks >= 1 /\ pressedTicks <= 5
    /\ pose.scaleZ > 650 /\ (1000 - pose.scaleZ) % 40 # 0
    /\ pose.posZ > 0 - 150 /\ pose.rotX < 30

\* C18: a frame tick leaves PressState, clickCount, the sound and the
\* outstanding timers as they are; a handleClick call, accepted or
\* ignored, and the firing of a sound or release timer leave the pose and
\* the shadow as they are; and an ignored handleClick call leaves all of
\* them as they are: nothing is stopped and no timer is scheduled.
C18_EventsKeepToTheirPart ==
    /\ [][Tick =>
             UNCHANGED <<isPressed, clickCount, audio, timers, loadState>>]_vars
    /\ [][(HandleClickCall \/ SoundTimerFires \/ ReleaseTimerFires) =>
             UNCHANGED <<pose, shadow>>]_vars
    /\ [][(HandleClickCall /\ isPressed) =>
             UNCHANGED <<isPressed, clickCount, pose, shadow,
                         timers, audio, loadState>>]_vars

\* C18 witness: during a press whose sound has started and is playing,
\* two more handleClick calls were ignored and frame ticks were taken
C18_Witness ==
    /\ isPressed /\ burst.calls = 3 /\ pressedTicks >= 1
    /\ audio.isPlaying /\ NumTimers(timers, "sound") = 0
    /\ NumTimers(timers, "release") = 1

====
